---- MODULE Spec2Model ----
(***************************************************************************)
(* The fetch-and-present workflow of src/src/App.tsx: the UnitProvider     *)
(* state (unit, toggle), the WeatherApp state (weather, location,          *)
(* fetchError), the formik form (values.cityName, errors.cityName) and the *)
(* async onSubmit handler with its two awaited axios.get calls.            *)
(*                                                                         *)
(* A city name is a sequence of one-character strings, so that trim() is   *)
(* computed and not assumed.  Every run of onSubmit is a closure holding   *)
(* the cityName and the unit it was created with; it is suspended at the   *)
(* first or at the second await, and a response resumes it.  The code      *)
(* after an await runs to the next await (or to the end of the handler)    *)
(* without interleaving, so each resumption is one action.                 *)
(***************************************************************************)
EXTENDS Integers, Sequences, FiniteSets, TLC

\* ------------------------------------------------------------------ bounds
\* How many onSubmit runs may be suspended at an await at the same time.
MaxPending == 2
\* The longest forecast list the provider answers with.
MaxN == 17

\* --------------------------------------------------------------- constants
\* App.tsx:129  idx % 8 === 0
Stride == 8
\* App.tsx:96
API_TOKEN == "532e524ebf5657e44968d0cc21a1d155"
\* App.tsx:113
RequiredMsg == "Please enter a city name."
\* App.tsx:117
MissingKeyMsg == "API key is missing. Please check your .env configuration."
\* App.tsx:143
FailureMsg == "Oops! Couldn't retrieve data. Please double-check the city name or try again later."

\* What the user may type into the input: nothing, whitespace only, the name
\* of a city the provider knows (typed with surrounding whitespace), and a
\* name it does not know.
CityInputs == { <<>>, <<" ">>, <<" ", "a", " ">>, <<"q">> }

Slots == 1..MaxPending

VARIABLES
  unit,        \* UnitProvider: useState("metric")                 (line 213)
  cityName,    \* formik.values.cityName                           (line 111)
  errors,      \* formik.errors.cityName, "" when there is none    (line 166)
  weather,     \* WeatherApp: useState<WeatherData | null>(null)   (line 105)
  location,    \* WeatherApp: useState({ lat: 0, lon: 0 })         (line 106)
  fetchError,  \* WeatherApp: useState("")                         (line 107)
  subs,        \* the suspended runs of onSubmit, by slot          (line 115)
  net,         \* the axios.get requests in flight                 (lines 122-127)
  event        \* the handler that ran last and the input it was given

vars == <<unit, cityName, errors, weather, location, fetchError, subs, net, event>>

Null == [null |-> TRUE]
Idle == [pc |-> "idle"]

\* ------------------------------------------------------------ pure helpers
\* String.prototype.trim, as Yup's string().trim() applies it.
RECURSIVE TrimStart(_)
TrimStart(s) ==
  IF s = <<>> THEN s
  ELSE IF Head(s) = " " THEN TrimStart(Tail(s)) ELSE s

RECURSIVE TrimEnd(_)
TrimEnd(s) ==
  IF s = <<>> THEN s
  ELSE IF s[Len(s)] = " " THEN TrimEnd(SubSeq(s, 1, Len(s) - 1)) ELSE s

Trim(s) == TrimEnd(TrimStart(s))

\* A validator that tests the raw value and forgets trim().
ValidateNoTrim(v) == IF v = <<>> THEN RequiredMsg ELSE ""

\* validationSchema: Yup.string().trim().required(...); "" means valid.
Validate(v) == IF Trim(v) = <<>> THEN RequiredMsg ELSE ""

\* A toggle that only ever switches to imperial.
NextUnitStuck(prev) == "imperial"

\* toggle: prev === "metric" ? "imperial" : "metric"
NextUnit(prev) == IF prev = "metric" THEN "imperial" ELSE "metric"

\* A sampler that keeps the last entry of each group of eight.
KeepIndexLast(idx) == idx % Stride = Stride - 1

\* The filter predicate of dailyData, on the 0-based index.
KeepIndex(idx) == idx % Stride = 0

\* Array.prototype.filter with that predicate, from 0-based index idx on.
RECURSIVE FilterFrom(_, _)
FilterFrom(list, idx) ==
  IF idx >= Len(list) THEN <<>>
  ELSE (IF KeepIndex(idx) THEN <<list[idx + 1]>> ELSE <<>>)
       \o FilterFrom(list, idx + 1)

DailyData(list) == FilterFrom(list, 0)

\* The suffix rendered after the temperature.
Suffix(u) == IF u = "metric" THEN "C" ELSE "F"

\* ------------------------------------------------------------ the provider
\* The temperature the provider reports, in the unit the request asked for.
TempIn(u) == IF u = "metric" THEN 20 ELSE 68

\* The cities the provider knows, and the coordinates it publishes for one.
Known(name) == name = <<"a">>
CoordOf(name) == [lat |-> 51, lon |-> 1]

\* A forecast list of n entries; entry i (1-based) carries its own position.
ForecastList(n, u) == [i \in 1..n |-> [dt_txt |-> i, main |-> [temp |-> TempIn(u) + i]]]

Rejected == [status |-> "rejected"]
Fulfilled(d) == [status |-> "fulfilled", data |-> d]

\* What axios.get may settle with for a current-conditions request: a
\* rejection (network error, unknown city, non-2xx) and, for a known city,
\* a complete body or a 2xx body that lacks coord.
CurrentResponses(req) ==
  { Rejected } \cup
  IF Known(Trim(req.q))
  THEN { Fulfilled([name |-> Trim(req.q), main |-> [temp |-> TempIn(req.units)],
                    coord |-> CoordOf(Trim(req.q))]),
         Fulfilled([name |-> Trim(req.q), main |-> [temp |-> TempIn(req.units)]]) }
  ELSE {}

\* And for a forecast request: a rejection, a 2xx body that lacks list, or
\* a body with a list whose length is one of lens.
ForecastResponses(req, lens) ==
  { Rejected, Fulfilled([cod |-> "200"]) }
  \cup { Fulfilled([list |-> ForecastList(n, req.units)]) : n \in lens }

\* The list lengths of the workflow specification: an empty list and one
\* that is sampled twice.
WorkflowLens == {0, Stride + 1}

\* The list lengths of the sampler specification.
SamplerLens == 0..MaxN

\* ---------------------------------------------------------------- requests
\* axios.get of line 122-124, by the closure in slot s.
CurrentRequest(s, c) ==
  [sub |-> s, kind |-> "weather", q |-> c.cityName, units |-> c.unit]

\* A forecast request that reads the unit and the input of the latest render.
ForecastRequestLive(s, c) ==
  [sub |-> s, kind |-> "forecast", q |-> cityName, units |-> unit]

\* axios.get of line 125-127, by the closure in slot s.
ForecastRequest(s, c) ==
  [sub |-> s, kind |-> "forecast", q |-> c.cityName, units |-> c.unit]

\* A handler that starts both requests at once.
RequestsOnSubmitBoth(s, c) == {CurrentRequest(s, c), ForecastRequest(s, c)}

\* The requests issued before onSubmit first suspends.
RequestsOnSubmit(s, c) == {CurrentRequest(s, c)}

\* ------------------------------------------------------------------- Init
Init ==
  /\ unit = "metric"
  /\ cityName = <<>>
  /\ errors = ""
  /\ weather = Null
  /\ location = [lat |-> 0, lon |-> 0]
  /\ fetchError = ""
  /\ subs = [s \in Slots |-> Idle]
  /\ net = {}
  /\ event = [type |-> "init"]

\* ------------------------------------------------------- handler outcomes
\* A catch block that also drops the snapshot.
AfterCatchClearing ==
  [weather |-> Null, location |-> [lat |-> 0, lon |-> 0], fetchError |-> FailureMsg]

\* The catch block: setFetchError(...) and nothing else.
AfterCatch ==
  [weather |-> weather, location |-> location, fetchError |-> FailureMsg]

\* An onSubmit that clears the error text before its first request.
FetchErrorOnSubmitCleared == ""

\* What onSubmit does to fetchError before it first suspends: nothing.
FetchErrorOnSubmit == fetchError

\* A continuation that writes only when no other run is still suspended.
AfterForecastUnlessOverlap(s, resp) ==
  IF \E o \in Slots \ {s} : subs[o] # Idle
  THEN [weather |-> weather, location |-> location, fetchError |-> fetchError]
  ELSE [weather |-> [now |-> subs[s].currentData, future |-> <<>>],
        location |-> location, fetchError |-> ""]

\* The code after the second await, lines 129-144, for the closure in slot
\* s resumed with resp.  A rejected await and a TypeError on a missing field
\* both land in the catch block; the TypeError on coord is raised after
\* setWeather has run.
AfterForecast(s, resp) ==
  LET c == subs[s] IN
  IF resp.status = "rejected" \/ "list" \notin DOMAIN resp.data
  THEN AfterCatch
  ELSE LET w == [now |-> c.currentData, future |-> DailyData(resp.data.list)] IN
       IF "coord" \notin DOMAIN c.currentData
       THEN [weather |-> w, location |-> location, fetchError |-> FailureMsg]
       ELSE [weather |-> w,
             location |-> [lat |-> c.currentData.coord.lat,
                           lon |-> c.currentData.coord.lon],
             fetchError |-> ""]

\* ---------------------------------------------------------------- actions
\* formik.handleChange: the field takes the value and, validateOnChange
\* being on, the schema is run on it.
HandleChange(v) ==
  /\ cityName' = v
  /\ errors' = Validate(v)
  /\ event' = [type |-> "change"]
  /\ UNCHANGED <<unit, weather, location, fetchError, subs, net>>

\* The toggle button of line 169.
Toggle ==
  /\ unit' = NextUnit(unit)
  /\ event' = [type |-> "toggle"]
  /\ UNCHANGED <<cityName, errors, weather, location, fetchError, subs, net>>

\* formik.handleSubmit: validate, and on success call onSubmit, which runs
\* up to its first await.
Submit ==
  LET err == Validate(cityName)
      free == {s \in Slots : subs[s] = Idle}
      c == [pc |-> "awaitCurrent", cityName |-> cityName, unit |-> unit]
  IN
  /\ (err = "" /\ API_TOKEN # "") => free # {}
  /\ errors' = err
  /\ event' = [type |-> "submit"]
  /\ UNCHANGED <<unit, cityName, weather, location>>
  /\ IF err # ""
     THEN UNCHANGED <<fetchError, subs, net>>
     ELSE IF API_TOKEN = ""
     THEN fetchError' = MissingKeyMsg /\ UNCHANGED <<subs, net>>
     ELSE LET s == CHOOSE x \in free : \A y \in free : x <= y IN
          /\ subs' = [subs EXCEPT ![s] = c]
          /\ net' = net \cup RequestsOnSubmit(s, c)
          /\ fetchError' = FetchErrorOnSubmit

\* The first await settles with resp and the closure in slot s resumes.
CurrentResponds(s) ==
  LET c == subs[s] IN
  /\ c.pc = "awaitCurrent"
  /\ \E r \in {x \in net : x.sub = s /\ x.kind = "weather"} :
     \E resp \in CurrentResponses(r) :
       /\ event' = [type |-> "current", sub |-> s, resp |-> resp]
       /\ UNCHANGED <<unit, cityName, errors>>
       /\ IF resp.status = "rejected"
          THEN /\ weather' = AfterCatch.weather
               /\ location' = AfterCatch.location
               /\ fetchError' = AfterCatch.fetchError
               /\ subs' = [subs EXCEPT ![s] = Idle]
               /\ net' = net \ {r}
          ELSE /\ UNCHANGED <<weather, location, fetchError>>
               /\ subs' = [subs EXCEPT ![s] =
                             [pc |-> "awaitForecast", cityName |-> c.cityName,
                              unit |-> c.unit, currentData |-> resp.data]]
               /\ net' = (net \ {r}) \cup {ForecastRequest(s, c)}

\* The second await settles with resp and the closure runs to its end.
ForecastResponds(s, lens) ==
  LET c == subs[s] IN
  /\ c.pc = "awaitForecast"
  /\ \E r \in {x \in net : x.sub = s /\ x.kind = "forecast"} :
     \E resp \in ForecastResponses(r, lens) :
       /\ event' = [type |-> "forecast", sub |-> s, resp |-> resp]
       /\ UNCHANGED <<unit, cityName, errors>>
       /\ weather' = AfterForecast(s, resp).weather
       /\ location' = AfterForecast(s, resp).location
       /\ fetchError' = AfterForecast(s, resp).fetchError
       /\ subs' = [subs EXCEPT ![s] = Idle]
       /\ net' = net \ {r}

Next ==
  \/ \E v \in CityInputs : HandleChange(v)
  \/ Toggle
  \/ Submit
  \/ \E s \in Slots : CurrentResponds(s)
  \/ \E s \in Slots : ForecastResponds(s, WorkflowLens)

Spec == Init /\ [][Next]_vars

\* ------------------------------------------------------------- the display
\* What the render of lines 175-204 shows while a snapshot is held.
Displayed ==
  IF weather = Null THEN Null
  ELSE [name |-> weather.now.name, temp |-> weather.now.main.temp,
        suffix |-> Suffix(unit), center |-> location]

\* The sampler specification: a run of onSubmit is suspended at its second
\* await, as after Submit and a fulfilled CurrentResponds (with or without
\* a Toggle since), and the forecast answers with a list of any length up
\* to MaxN.
SamplerInit ==
  /\ unit \in {"metric", "imperial"}
  /\ cityName = <<" ", "a", " ">>
  /\ errors = ""
  /\ weather = Null
  /\ location = [lat |-> 0, lon |-> 0]
  /\ fetchError = ""
  /\ \E u \in {"metric", "imperial"} :
     \E resp \in CurrentResponses(
                   CurrentRequest(1, [cityName |-> cityName, unit |-> u])) :
       /\ resp.status = "fulfilled"
       /\ subs = [s \in Slots |->
                    IF s = 1
                    THEN [pc |-> "awaitForecast", cityName |-> cityName,
                          unit |-> u, currentData |-> resp.data]
                    ELSE Idle]
       /\ net = {ForecastRequest(1, [cityName |-> cityName, unit |-> u])}
       /\ event = [type |-> "current", sub |-> 1, resp |-> resp]

SamplerNext == \E s \in Slots : ForecastResponds(s, SamplerLens)

SamplerSpec == SamplerInit /\ [][SamplerNext]_vars

\* ===================================================================
\* Properties
\* ===================================================================
Blank(v) == Trim(v) = <<>>

\* Every snapshot shown was built from a complete current-conditions body.
CompleteSnapshot == weather # Null => "coord" \in DOMAIN weather.now

\* The last handler was resumed by a rejected request.
Rejection == event.type \in {"current", "forecast"} /\ event.resp.status = "rejected"
RejectionNext == event'.type \in {"current", "forecast"} /\ event'.resp.status = "rejected"

\* The last handler was a forecast response with a list.
ListArrived ==
  /\ event.type = "forecast"
  /\ event.resp.status = "fulfilled"
  /\ "list" \in DOMAIN event.resp.data

\* The step ends the run of onSubmit in slot s.
Resolves(s) == subs[s] # Idle /\ subs'[s] = Idle

\* The response of the step is a forecast body with a list.
ListArrives ==
  /\ event'.type = "forecast"
  /\ event'.resp.status = "fulfilled"
  /\ "list" \in DOMAIN event'.resp.data

\* ------------------------------------------------------------------- C1
\* C1: after a submission of an empty or whitespace-only city name the
\* validation message "Please enter a city name." is shown, and no request
\* in flight and no suspended run of onSubmit ever carries a city name that
\* trims to the empty string.
C1_BlankInputNeverFetches ==
  /\ \A r \in net : ~Blank(r.q)
  /\ \A s \in Slots : subs[s] # Idle => ~Blank(subs[s].cityName)
  /\ (event.type = "submit" /\ Blank(cityName)) => errors = RequiredMsg

C1_Witness ==
  /\ event.type = "submit"
  /\ cityName = <<" ">>
  /\ errors = RequiredMsg
  /\ net = {}

\* ------------------------------------------------------------------- C2
\* C2: a step in which a request of a submission is rejected sets the error
\* text to the fixed failure message and leaves the snapshot and the
\* coordinates as they were.
C2_FailureKeepsSnapshot ==
  [][RejectionNext =>
       /\ fetchError' = FailureMsg
       /\ weather' = weather
       /\ location' = location]_vars

\* A stale snapshot and the error text are shown together.
C2_Witness ==
  /\ Rejection
  /\ weather # Null
  /\ CompleteSnapshot
  /\ fetchError = FailureMsg

\* ------------------------------------------------------------------- C3
\* C3: a forecast request is in flight only for a run whose
\* current-conditions request was fulfilled, a run never has both requests
\* in flight, and after a rejected current-conditions request the run is
\* over without a forecast request.
C3_ForecastAfterCurrent ==
  /\ \A r \in net :
       r.kind = "forecast" =>
         /\ subs[r.sub] # Idle
         /\ subs[r.sub].pc = "awaitForecast"
         /\ "name" \in DOMAIN subs[r.sub].currentData
  /\ \A r1, r2 \in net : r1.sub = r2.sub => r1 = r2
  /\ (event.type = "current" /\ event.resp.status = "rejected") =>
       /\ subs[event.sub] = Idle
       /\ \A r \in net : r.sub # event.sub

\* One run was refused its current conditions while another waits for its
\* forecast.
C3_Witness ==
  /\ event.type = "current" /\ event.resp.status = "rejected"
  /\ \E r \in net : r.kind = "forecast"

\* ------------------------------------------------------------------- C4
\* The unit the provider expressed a temperature in.
UnitOfTemp(t) == IF t = TempIn("metric") THEN "metric" ELSE "imperial"

\* C4: whenever the snapshot of a successful two-call sequence is displayed,
\* the suffix shown after its temperature is the one of the unit setting in
\* effect at the submission that produced the snapshot (the unit its
\* temperature is expressed in).
C4_SuffixOfSubmissionUnit ==
  (weather # Null /\ CompleteSnapshot) =>
    Displayed.suffix = Suffix(UnitOfTemp(weather.now.main.temp))

\* ------------------------------------------------------------------- C5
\* C5: the unit starts as metric; a step that changes the unit flips it and
\* changes nothing else (no request, no snapshot, no coordinates, no error
\* text, no form state), and a submission's first request carries the unit
\* current at that submission.
C5_ToggleOnlyFlipsUnit ==
  /\ unit = "metric"
  /\ [][/\ unit' # unit =>
             /\ unit' = (IF unit = "metric" THEN "imperial" ELSE "metric")
             /\ UNCHANGED <<cityName, errors, weather, location, fetchError, subs, net>>
        /\ event'.type = "toggle" => unit' # unit
        /\ event'.type = "submit" => \A r \in net' \ net : r.units = unit']_vars

\* The unit was toggled to imperial and back while a snapshot was shown and
\* a request was in flight.
C5_Witness ==
  /\ event.type = "toggle"
  /\ unit = "metric"
  /\ weather # Null
  /\ net # {}

\* ------------------------------------------------------------------- C6
\* C6: when a forecast list of length N arrives, the snapshot's sampled
\* sequence has length ceil(N/8) and its i-th element (0-based) is the
\* list's element at 0-based index 8*i.
C6_SampleEveryEighth ==
  (event.type = "forecast" /\ event.resp.status = "fulfilled"
     /\ "list" \in DOMAIN event.resp.data) =>
    LET list == event.resp.data.list
        N == Len(list)
    IN /\ weather # Null
       /\ Len(weather.future) = (N + 7) \div 8
       /\ \A i \in 0..(Len(weather.future) - 1) :
            weather.future[i + 1] = list[8 * i + 1]

\* A list of 17 entries was sampled to 3.
C6_Witness ==
  /\ event.type = "forecast" /\ event.resp.status = "fulfilled"
  /\ "list" \in DOMAIN event.resp.data
  /\ Len(event.resp.data.list) = 17
  /\ Len(weather.future) = 3

\* ------------------------------------------------------------------- C7
\* C7: whenever a snapshot is displayed, the coordinates are the coord of
\* its current-conditions record, and a submission that replaced the
\* snapshot did not also set the failure message.
C7_SnapshotAtomicWithCoordinates ==
  /\ weather # Null =>
       /\ "coord" \in DOMAIN weather.now
       /\ location = [lat |-> weather.now.coord.lat, lon |-> weather.now.coord.lon]
  /\ (event.type = "forecast" /\ event.resp.status = "fulfilled"
        /\ "list" \in DOMAIN event.resp.data) => fetchError = ""

\* ------------------------------------------------------------------- C8
\* The run in slot 2 was started while the run in slot 1 was suspended, so
\* when it ends with every slot idle it is the last to resolve of
\* submissions that overlapped.
LastOfOverlapping ==
  /\ event.type \in {"current", "forecast"}
  /\ event.sub >= 2
  /\ \A s \in Slots : subs[s] = Idle

\* C8 as stated: after the last of overlapping submissions has resolved
\* (its request rejected, or its forecast list arrived), all bodies having
\* been complete, the snapshot shown, if any, is the one that submission
\* produced, and so is the error text.
C8_LastResolverOwnsAll ==
  (LastOfOverlapping /\ (Rejection \/ ListArrived) /\ CompleteSnapshot) =>
    /\ weather # Null => (ListArrived /\ weather.future = DailyData(event.resp.data.list))
    /\ Rejection => fetchError = FailureMsg

\* C8 amended: a submission is accepted while others are suspended, and
\* every step that ends a run, whatever the other runs are doing and
\* whichever was started first, writes the error text of that run, writes
\* the snapshot if and only if its forecast arrived with a list, and writes
\* the coordinates if and only if its current-conditions record also has
\* coord; no other step writes any of the three.
C8_LastWriterPerField ==
  [][/\ \A s \in Slots :
          Resolves(s) =>
            LET wrote == ListArrives
                whole == wrote /\ "coord" \in DOMAIN subs[s].currentData
            IN /\ event'.sub = s
               /\ fetchError' = (IF whole THEN "" ELSE FailureMsg)
               /\ IF wrote
                  THEN /\ weather'.now = subs[s].currentData
                       /\ Len(weather'.future) =
                            (Len(event'.resp.data.list) + 7) \div 8
                  ELSE weather' = weather
               /\ IF whole
                  THEN location' = [lat |-> subs[s].currentData.coord.lat,
                                    lon |-> subs[s].currentData.coord.lon]
                  ELSE location' = location
     /\ (\A s \in Slots : ~Resolves(s)) =>
          UNCHANGED <<weather, location, fetchError>>
     /\ (event'.type = "submit" /\ ~Blank(cityName)) =>
          \E s \in Slots : subs[s] = Idle /\ subs'[s] # Idle]_vars

\* The later-started submission failed last: its error text is shown with
\* the snapshot of the one it overlapped.
C8_Witness ==
  /\ LastOfOverlapping
  /\ event.resp.status = "rejected"
  /\ weather # Null
  /\ CompleteSnapshot
  /\ fetchError = FailureMsg

\* ------------------------------------------------------------------- C9
\* C9 as stated: once a submission has passed validation and started its
\* fetch, no error text is shown.
C9_ClearedWhenFetchStarts ==
  (event.type = "submit" /\ ~Blank(cityName)) => fetchError = ""

\* C9 amended: the error text is written only by a step that ends a run of
\* onSubmit; it is cleared only by a run whose two responses arrived
\* complete, and set to the failure message by every other end of a run.
\* Validation, editing, toggling and the start of a fetch leave it as it
\* was.
C9_ErrorWrittenOnlyAtResolution ==
  [][/\ event'.type \in {"submit", "change", "toggle"} =>
          fetchError' = fetchError
     /\ fetchError' # fetchError => \E s \in Slots : Resolves(s)
     /\ (fetchError' = "" /\ fetchError # "") =>
          /\ ListArrives
          /\ "coord" \in DOMAIN subs[event'.sub].currentData
     /\ fetchError' \in {"", FailureMsg}]_vars

\* A fetch has just started and the earlier failure message is still shown.
C9_Witness ==
  /\ event.type = "submit"
  /\ ~Blank(cityName)
  /\ net # {}
  /\ fetchError = FailureMsg

\* ------------------------------------------------------------------ C10
\* C10: the forecast request of a run carries the city name and the unit of
\* that run's current-conditions request, which are the input and the unit
\* current when the submission started.
C10_SameScopeForBothRequests ==
  [][/\ \A r \in net : \A f \in net' :
          (r.kind = "weather" /\ f.kind = "forecast" /\ f.sub = r.sub) =>
            (f.q = r.q /\ f.units = r.units)
     /\ event'.type = "submit" =>
          \A r \in net' \ net :
            r.kind = "weather" /\ r.q = cityName /\ r.units = unit]_vars

\* A forecast request is in flight after the unit was toggled and the input
\* edited.
C10_Witness ==
  \E f \in net :
    /\ f.kind = "forecast"
    /\ f.units # unit
    /\ f.q # cityName
    /\ event.type = "current"

====
